---- MODULE Spec2Model ----
(***************************************************************************)
(* Model of the Cloudflare Worker in src/src/index.js: a webhook handler   *)
(* that receives Telnyx message events, resolves a route for the           *)
(* destination number in a key-value store and either sends an SMS reply   *)
(* or forwards the message (with inlined images) as an email.              *)
(*                                                                         *)
(* Two specifications:                                                     *)
(*   SpecNorm  the pure function normalizePhoneNumber applied to a bounded *)
(*             family of inputs;                                           *)
(*   Spec      one invocation of the handler fetch(request, env), one      *)
(*             action per run-to-completion segment between two awaits.    *)
(***************************************************************************)
EXTENDS Integers, Sequences, FiniteSets, TLC

VARIABLES
    nInput,             \* SpecNorm: the argument of normalizePhoneNumber
    nOutcome,           \* SpecNorm: its outcome, or Pending before the call
    request,            \* the HTTP request handed to fetch
    env,                \* the environment bindings handed to fetch
    pc,                 \* where the invocation is suspended
    fromPhone,          \* local of fetch (display sender)
    fromPhoneForReply,  \* local of fetch (validated sender)
    toPhone,            \* local of fetch (validated destination)
    text,               \* local of fetch
    route,              \* local of fetch (resolved route)
    mediaIdx,           \* processMedia: index of the item being processed
    mediaHtml,          \* processMedia: fragments appended so far
    trace,              \* every outbound operation and its resolution, in order
    responses,          \* statuses of the responses returned by fetch
    threw               \* whether an exception reached the catch of fetch

vars == <<nInput, nOutcome, request, env, pc, fromPhone, fromPhoneForReply,
          toPhone, text, route, mediaIdx, mediaHtml, trace, responses, threw>>

normVars == <<nInput, nOutcome>>

handlerVars == <<request, env, pc, fromPhone, fromPhoneForReply, toPhone,
                 text, route, mediaIdx, mediaHtml, trace, responses, threw>>

(***************************************************************************)
(* Bounds of the model.                                                    *)
(***************************************************************************)
\* longest run of digits in a generated phone string (beyond E164_MAX_DIGITS)
MaxDigits == 17
\* most whitespace characters put before / after a generated phone string
MaxPad == 2
\* longest media list of a request
MaxMedia == 2

(***************************************************************************)
(* Program constants.                                                      *)
(***************************************************************************)
ROUTE_KEY_PREFIX == <<"r", "o", "u", "t", "e", ":">>
E164_MIN_DIGITS == 8
E164_MAX_DIGITS == 15

(***************************************************************************)
(* JavaScript values.  A value is a record [t, s]: t is its typeof-like    *)
(* tag and s its content when it is a string.  Strings that the code       *)
(* inspects character by character (phone numbers, keys) carry a sequence  *)
(* of one-character strings; strings the code only tests for emptiness and *)
(* passes on (text, e-mail address, mode) carry a TLA+ string.             *)
(***************************************************************************)
Str(chars) == [t |-> "string", s |-> chars]
Null == [t |-> "null", s |-> <<>>]
Undefined == [t |-> "undefined", s |-> <<>>]
Number == [t |-> "number", s |-> <<>>]
Object == [t |-> "object", s |-> <<>>]

Txt(str) == [t |-> "string", s |-> str]
NoTxt == [t |-> "undefined", s |-> ""]

\* JavaScript truthiness of a character-level value / of an opaque value
Truthy(v) == v.t \in {"object", "number"} \/ (v.t = "string" /\ v.s # <<>>)
TruthyTxt(v) == v.t \in {"object", "number"} \/ (v.t = "string" /\ v.s # "")

DigitChars == {"0", "1", "2", "3", "4", "5", "6", "7", "8", "9"}
WhitespaceChars == {" ", "\t"}

\* the outcome of a call: a returned value or a thrown exception
Return(v) == [threw |-> FALSE, value |-> v]
Throw == [threw |-> TRUE, value |-> Undefined]

(***************************************************************************)
(* String primitives used by normalizePhoneNumber.                         *)
(***************************************************************************)
RECURSIVE TrimStart(_)
TrimStart(s) ==
    IF s # <<>> /\ Head(s) \in WhitespaceChars THEN TrimStart(Tail(s)) ELSE s

RECURSIVE TrimEnd(_)
TrimEnd(s) ==
    IF s # <<>> /\ s[Len(s)] \in WhitespaceChars
    THEN TrimEnd(SubSeq(s, 1, Len(s) - 1))
    ELSE s

\* String.prototype.trim
Trim(s) == TrimEnd(TrimStart(s))

\* String.prototype.startsWith for a one-character prefix
StartsWith(s, c) == s # <<>> /\ Head(s) = c

\* s.replace(/\D/g, ""): every character that is not an ASCII digit removed
RECURSIVE ReplaceNonDigits(_)
ReplaceNonDigits(s) ==
    IF s = <<>> THEN <<>>
    ELSE IF Head(s) \in DigitChars
         THEN <<Head(s)>> \o ReplaceNonDigits(Tail(s))
         ELSE ReplaceNonDigits(Tail(s))

\* the typeof guard of normalizePhoneNumber (line 20)
IsString(v) == v.t = "string"

\* the digit-count guard of normalizePhoneNumber (lines 24-29)
DigitCountOutOfRangeMutant(digitsOnly) ==
    Len(digitsOnly) <= E164_MIN_DIGITS \/ Len(digitsOnly) > E164_MAX_DIGITS
DigitCountOutOfRange(digitsOnly) ==
    Len(digitsOnly) < E164_MIN_DIGITS \/ Len(digitsOnly) > E164_MAX_DIGITS

\* the leading-plus guard of normalizePhoneNumber (lines 21-22)
HasLeadingPlusMutant(s) == \E i \in 1..Len(s) : s[i] = "+"
HasLeadingPlus(s) == StartsWith(Trim(s), "+")

\* normalizePhoneNumber, as an outcome: calling .trim() on a value that is
\* not a string raises a TypeError
normalizePhoneNumber(phoneNumber) ==
    IF ~IsString(phoneNumber) THEN Return(Null)
    ELSE IF phoneNumber.t # "string" THEN Throw  \* .trim is not a function
    ELSE IF ~HasLeadingPlus(phoneNumber.s) THEN Return(Null)
    ELSE LET digitsOnly == ReplaceNonDigits(Trim(phoneNumber.s))
         IN  IF DigitCountOutOfRange(digitsOnly) THEN Return(Null)
             ELSE Return(Str(<<"+">> \o digitsOnly))

(***************************************************************************)
(* SpecNorm: normalizePhoneNumber on a bounded family of inputs.           *)
(***************************************************************************)
Pending == [threw |-> FALSE, value |-> [t |-> "pending", s |-> <<>>]]

DigitSeq == <<"0", "1", "2", "3", "4", "5", "6", "7", "8", "9">>

\* the i-th digit of the digit run generated from seed
DigitAt(seed, i) == DigitSeq[((seed + 3 * i) % 10) + 1]

\* n digits, with the character p after every k-th digit (k = 0: none)
RECURSIVE DigitRun(_, _, _, _, _)
DigitRun(i, n, seed, k, p) ==
    IF i > n THEN <<>>
    ELSE <<DigitAt(seed, i)>>
         \o (IF k > 0 /\ i % k = 0 THEN <<p>> ELSE <<>>)
         \o DigitRun(i + 1, n, seed, k, p)

Pad(n) == [i \in 1..n |-> " "]

\* what can stand before the digits: padding, then "", "+", a non-digit or
\* a digit before a "+", a tab before a "+", two "+"
Leads == { <<>>, <<"+">>, <<"-", "+">>, <<"7", "+">>, <<"\t", "+">>,
           <<"+", "+">>, <<"(">> }

Punctuations == { <<0, "-">>, <<1, "-">>, <<3, " ">>, <<4, ")">> }

PhoneStrings ==
    { Pad(a) \o lead \o DigitRun(1, n, seed, pu[1], pu[2]) \o Pad(b) :
        a \in 0..MaxPad, lead \in Leads, n \in 0..MaxDigits,
        seed \in {1, 4}, pu \in Punctuations, b \in {0, MaxPad} }

NormInputs ==
    { Str(s) : s \in PhoneStrings } \cup {Null, Undefined, Number, Object}

IdleRequest == [method |-> "NONE"]

HandlerIdle ==
    /\ request = IdleRequest
    /\ env = [TELNYX_API_KEY |-> FALSE]
    /\ pc = "idle"
    /\ fromPhone = Undefined
    /\ fromPhoneForReply = Undefined
    /\ toPhone = Undefined
    /\ text = NoTxt
    /\ route = Null
    /\ mediaIdx = 0
    /\ mediaHtml = <<>>
    /\ trace = <<>>
    /\ responses = <<>>
    /\ threw = FALSE

InitNorm ==
    /\ nInput \in NormInputs
    /\ nOutcome = Pending
    /\ HandlerIdle

Normalize ==
    /\ nOutcome = Pending
    /\ nOutcome' = normalizePhoneNumber(nInput)
    /\ UNCHANGED <<nInput, handlerVars>>

NextNorm == Normalize

SpecNorm == InitNorm /\ [][NextNorm]_vars

(***************************************************************************)
(* The handler's inputs.                                                   *)
(***************************************************************************)
\* "+15551230000"
DestinationNumber ==
    Str(<<"+", "1", "5", "5", "5", "1", "2", "3", "0", "0", "0", "0">>)
\* "+1 (555) 123-4567"
SenderNumber ==
    Str(<<"+", "1", " ", "(", "5", "5", "5", ")", " ", "1", "2", "3", "-",
          "4", "5", "6", "7">>)
\* "5551234567": no leading plus
LocalNumber == Str(<<"5", "5", "5", "1", "2", "3", "4", "5", "6", "7">>)
\* "+123": too few digits
ShortNumber == Str(<<"+", "1", "2", "3">>)

\* payload.from.phone_number
FromSamples == {SenderNumber, LocalNumber, Str(<<>>), Undefined}

\* payload.to: an array of recipients (value: the first one's phone_number),
\* one recipient object (value: its phone_number), a bare string (value: the
\* string) or nothing
ToSamples ==
    { [shape |-> "array", value |-> DestinationNumber],
      [shape |-> "array", value |-> Undefined],
      [shape |-> "object", value |-> SenderNumber],
      [shape |-> "string", value |-> DestinationNumber],
      [shape |-> "string", value |-> ShortNumber],
      [shape |-> "absent", value |-> Undefined] }

ImageTypes == {"image/png", "image/jpeg"}

\* a media item: content_type and url, each a string or missing
MediaItems ==
    { [content_type |-> Txt("image/png"), url |-> Txt("https://m/a")],
      [content_type |-> Txt("image/jpeg"), url |-> Txt("https://m/b")],
      [content_type |-> Txt("image/png"), url |-> NoTxt],
      [content_type |-> Txt("video/mp4"), url |-> Txt("https://m/c")],
      [content_type |-> NoTxt, url |-> Txt("https://m/d")] }

MediaLists == UNION { [1..n -> MediaItems] : n \in 0..MaxMedia }

\* data.payload of a message event: every combination of direction, sender,
\* destination and text with no or one attachment, and every media list
\* with a destination that can be routed
Payloads ==
    [ direction : {"inbound", "outbound", "absent"},
      from : FromSamples,
      to : ToSamples,
      text : {Txt("hello"), NoTxt},
      media : { m \in MediaLists : Len(m) <= 1 } ]
    \cup
    [ direction : {"inbound"},
      from : {SenderNumber, Undefined},
      to : { t \in ToSamples : t.shape \in {"array", "object"} },
      text : {Txt("hello")},
      media : MediaLists ]

NoPayload ==
    [direction |-> "absent", from |-> Undefined,
     to |-> [shape |-> "absent", value |-> Undefined],
     text |-> NoTxt, media |-> <<>>]

\* an inbound message to a routable destination
InboundPayload ==
    [direction |-> "inbound", from |-> SenderNumber,
     to |-> [shape |-> "string", value |-> DestinationNumber],
     text |-> Txt("hello"), media |-> <<>>]

\* body: "invalid_json" (request.json() rejects), "no_data" (valid JSON
\* without a data member) or "event"
Requests ==
    { [method |-> m, body |-> "event", event_type |-> "message.received",
       hasPayload |-> TRUE, payload |-> InboundPayload] :
        m \in {"GET", "PUT"} }
    \cup
    { [method |-> "POST", body |-> "invalid_json",
       event_type |-> "message.received",
       hasPayload |-> FALSE, payload |-> NoPayload],
      [method |-> "POST", body |-> "no_data",
       event_type |-> "message.received",
       hasPayload |-> FALSE, payload |-> NoPayload] }
    \cup
    { [method |-> "POST", body |-> "event", event_type |-> e,
       hasPayload |-> FALSE, payload |-> NoPayload] :
        e \in {"message.received", "message.sent"} }
    \cup
    { [method |-> "POST", body |-> "event", event_type |-> e,
       hasPayload |-> TRUE, payload |-> p] :
        e \in {"message.received", "message.finalized"},
        p \in Payloads }

Envs == [TELNYX_API_KEY : BOOLEAN]

\* what JSON.parse of a stored route value can give
ParsedRoutes ==
    [ t : {"object"},
      mode : {Txt("auto_reply"), Txt("forward_email"), Txt("sms_blast"), NoTxt},
      reply_text : {Txt("Thanks!"), Txt(""), NoTxt},
      email : {Txt("a@b.com"), NoTxt} ]
    \cup
    { [t |-> k, mode |-> NoTxt, reply_text |-> NoTxt, email |-> NoTxt] :
        k \in {"null", "number"} }

NoRoute == [t |-> "null", mode |-> NoTxt, reply_text |-> NoTxt, email |-> NoTxt]

\* how env.NUMBER_TO_EMAIL.get(key) can resolve: the read rejects, the key
\* is absent, the stored value is empty, is not JSON, or parses
KvResults ==
    { [k |-> "throw", value |-> NoRoute], [k |-> "absent", value |-> NoRoute],
      [k |-> "empty", value |-> NoRoute],
      [k |-> "invalid_json", value |-> NoRoute] }
    \cup { [k |-> "json", value |-> r] : r \in ParsedRoutes }

(***************************************************************************)
(* Helpers of the handler.                                                 *)
(***************************************************************************)
\* getToPhone: the value handed to normalizePhoneNumber
\*   (Array.isArray(to) && to[0]?.phone_number) || to?.phone_number || to
ToField(to) ==
    CASE to.shape = "array" -> IF Truthy(to.value) THEN to.value ELSE Object
      [] to.shape = "object" -> IF Truthy(to.value) THEN to.value ELSE Object
      [] to.shape = "string" -> to.value
      [] OTHER -> Undefined

getToPhone(messagePayload) == normalizePhoneNumber(ToField(messagePayload.to))

\* "(Unknown)"
UnknownSender == Str(<<"(", "U", "n", "k", "n", "o", "w", "n", ")">>)

getFromPhone(messagePayload) ==
    IF messagePayload.from.t = "string" /\ Len(messagePayload.from.s) > 0
    THEN messagePayload.from
    ELSE UnknownSender

getFromPhoneForReply(messagePayload) ==
    normalizePhoneNumber(messagePayload.from)

\* messagePayload.text || "(No text)"
TextOf(messagePayload) ==
    IF TruthyTxt(messagePayload.text) THEN messagePayload.text
    ELSE Txt("(No text)")

\* the key read by getRoute
RouteKeyMutant(phone) == phone.s
RouteKey(phone) == ROUTE_KEY_PREFIX \o phone.s

\* getRoute after the read resolved: !raw -> null, JSON.parse failure -> null
ParseRoute(res) == IF res.k = "json" THEN res.value ELSE NoRoute

\* truthiness of the value returned by getRoute
RouteFound(r) == r.t \in {"object", "number"}

\* the test that selects the items processMedia fetches (line 133):
\*   item?.content_type?.startsWith("image/") && item.url
Fetchable(item) ==
    /\ item.content_type.t = "string"
    /\ item.content_type.s \in ImageTypes
    /\ TruthyTxt(item.url)

\* the first item at or after i that is fetched; Len + 1 when there is none
RECURSIVE NextFetchable(_, _)
NextFetchable(media, i) ==
    IF i > Len(media) THEN Len(media) + 1
    ELSE IF Fetchable(media[i]) THEN i
    ELSE NextFetchable(media, i + 1)

\* the fragments processMedia appends
\* (idx: the position of the attachment the fragment was built for)
ImageFragment(i, item) ==
    [kind |-> "img", idx |-> i, content_type |-> item.content_type.s]
FailedFragment(i, item) == [kind |-> "failed", idx |-> i, url |-> item.url.s]

\* mediaHtml += fragment
AddFragmentMutant(html, fragment) == <<fragment>> \o html
AddFragment(html, fragment) == Append(html, fragment)

\* the outbound operations recorded in the trace
KvGet(key) == [kind |-> "kv_get", key |-> key]
ReplyCall(from, to, replyText) ==
    [kind |-> "reply", from |-> from, to |-> to, text |-> replyText]
EmailCall(toEmail, sender, body, html) ==
    [kind |-> "email", to |-> toEmail, fromPhone |-> sender, text |-> body,
     mediaHtml |-> html]
MediaFetch(i, item) == [kind |-> "media_fetch", idx |-> i, url |-> item.url.s]
MediaResolved(i, outcome) ==
    [kind |-> "media_resolved", idx |-> i, outcome |-> outcome]
KvResolvedEvent(res) == [kind |-> "kv_resolved", outcome |-> res.k]

(***************************************************************************)
(* Spec: one invocation of fetch(request, env).                            *)
(***************************************************************************)
Init ==
    /\ nInput = Undefined
    /\ nOutcome = Pending
    /\ request \in Requests
    /\ env \in Envs
    /\ pc = "start"
    /\ fromPhone = Undefined
    /\ fromPhoneForReply = Undefined
    /\ toPhone = Undefined
    /\ text = NoTxt
    /\ route = NoRoute
    /\ mediaIdx = 0
    /\ mediaHtml = <<>>
    /\ trace = <<>>
    /\ responses = <<>>
    /\ threw = FALSE

\* the status of the response built by the catch block (line 243)
CatchStatus == 500

\* return okResponse() / the 405 response: the invocation ends
Respond(status) ==
    /\ responses' = Append(responses, status)
    /\ pc' = "done"
    /\ threw' = threw

\* an exception reaches the catch block of fetch (lines 241-244)
Catch ==
    /\ responses' = Append(responses, CatchStatus)
    /\ pc' = "done"
    /\ threw' = TRUE

\* the guard of sendTelnyxReply (line 107): the call is made only with a key
ReplyAllowed(e) == e.TELNYX_API_KEY

\* the event filter (lines 182-185), for an event that has a payload
FilteredOutMutant(data) == data.event_type # "message.received"
FilteredOut(data) ==
    data.event_type # "message.received" \/ data.payload.direction # "inbound"

\* the guard on the route's recipient (line 218)
EmailMissing(r) == ~TruthyTxt(r.email)

\* the recipient handed to sendMailgunEmail (line 230)
EmailRecipient(r) == r.email

\* the guards of the auto_reply branch (lines 208-215)
ReplySkippedMutant(r, sender) == ~TruthyTxt(r.reply_text)
ReplySkipped(r, sender) == ~TruthyTxt(r.reply_text) \/ ~Truthy(sender)

\* the arguments handed to sendTelnyxReply (line 216) as the body it posts
\* (lines 117-121)
ReplyBodyMutant(dest, sender, r) == ReplyCall(sender, dest, r.reply_text)
ReplyBody(dest, sender, r) == ReplyCall(dest, sender, r.reply_text)

\* processMedia from item i on, up to its next await: the items that are
\* not fetched are skipped; the next one is fetched, or the loop ends and
\* sendMailgunEmail posts the message (lines 132-153, 228-99)
MediaLoop(i, html, tr) ==
    LET media == request.payload.media
        j == NextFetchable(media, i)
    IN  /\ mediaHtml' = html
        /\ IF j <= Len(media)
           THEN /\ mediaIdx' = j
                /\ trace' = Append(tr, MediaFetch(j, media[j]))
                /\ pc' = "media_fetch"
                /\ UNCHANGED <<responses, threw>>
           ELSE /\ mediaIdx' = j
                /\ trace' = Append(tr, EmailCall(EmailRecipient(route'), fromPhone,
                                               text, html))
                /\ pc' = "email"
                /\ UNCHANGED <<responses, threw>>

\* lines 169-171, then the call of request.json()
Receive ==
    /\ pc = "start"
    /\ IF request.method # "POST"
       THEN Respond(405)
       ELSE pc' = "json" /\ UNCHANGED <<responses, threw>>
    /\ UNCHANGED <<normVars, request, env, fromPhone, fromPhoneForReply,
                   toPhone, text, route, mediaIdx, mediaHtml, trace>>

\* request.json() settles: lines 174-200 and getRoute up to its read
ParseBody ==
    /\ pc = "json"
    /\ UNCHANGED <<normVars, request, env, route, mediaIdx, mediaHtml>>
    /\ IF \/ request.body = "invalid_json"
          \/ request.body = "no_data"
          \/ (request.event_type = "message.received" /\ ~request.hasPayload)
       THEN /\ Catch
            /\ UNCHANGED <<fromPhone, fromPhoneForReply, toPhone, text, trace>>
       ELSE IF FilteredOut(request)
       THEN /\ Respond(200)
            /\ UNCHANGED <<fromPhone, fromPhoneForReply, toPhone, text, trace>>
       ELSE LET messagePayload == request.payload
                sender == getFromPhoneForReply(messagePayload)
                dest == getToPhone(messagePayload)
            IN  IF sender.threw \/ dest.threw
                THEN /\ Catch
                     /\ UNCHANGED <<fromPhone, fromPhoneForReply, toPhone,
                                    text, trace>>
                ELSE /\ fromPhone' = getFromPhone(messagePayload)
                     /\ fromPhoneForReply' = sender.value
                     /\ toPhone' = dest.value
                     /\ text' = TextOf(messagePayload)
                     /\ IF ~Truthy(dest.value)
                        THEN Respond(200) /\ UNCHANGED trace
                        ELSE /\ trace' = Append(trace, KvGet(RouteKey(dest.value)))
                             /\ pc' = "kv"
                             /\ UNCHANGED <<responses, threw>>

\* the key-value read settles: the rest of getRoute, then lines 201-235 up
\* to the next await
KvResolved ==
    /\ pc = "kv"
    /\ UNCHANGED <<normVars, request, env, fromPhone, fromPhoneForReply,
                   toPhone, text>>
    /\ \E res \in KvResults :
        LET tr == Append(trace, KvResolvedEvent(res))
            skip == /\ Respond(200)
                    /\ trace' = tr
                    /\ UNCHANGED <<mediaIdx, mediaHtml>>
        IN
        IF res.k = "throw"
        THEN Catch /\ trace' = tr /\ UNCHANGED <<route, mediaIdx, mediaHtml>>
        ELSE
          /\ route' = ParseRoute(res)
          /\ IF ~RouteFound(route')
             THEN skip
             ELSE IF route'.mode = Txt("auto_reply")
             THEN IF ReplySkipped(route', fromPhoneForReply)
                  THEN skip
                  ELSE IF ~ReplyAllowed(env)
                  THEN skip
                  ELSE /\ trace' = Append(tr,
                            ReplyBody(toPhone, fromPhoneForReply, route'))
                       /\ pc' = "reply"
                       /\ UNCHANGED <<mediaIdx, mediaHtml, responses, threw>>
             ELSE IF route'.mode = Txt("forward_email")
             THEN IF EmailMissing(route')
                  THEN skip
                  ELSE MediaLoop(1, <<>>, tr)
             ELSE skip

\* the try/catch of processMedia (lines 134, 147): a rejection of the fetch
\* or of the body read is caught there and goes no further
CaughtByTryMutant(outcome) == FALSE
CaughtByTry(outcome) == TRUE

\* what processMedia appends when fetch(item.url) settles without a body to
\* read: nothing for a response that is not ok (line 136 has no else), the
\* failure fragment when the fetch rejected (lines 147-150)
FetchFailureFragments(i, item, outcome) ==
    IF outcome = "throw" THEN <<FailedFragment(i, item)>> ELSE <<>>

\* fetch(item.url) settles (lines 135-136, 147-150)
MediaFetchResolved ==
    /\ pc = "media_fetch"
    /\ UNCHANGED <<normVars, request, env, fromPhone, fromPhoneForReply,
                   toPhone, text, route>>
    /\ \E outcome \in {"ok", "http_error", "throw"} :
        LET item == request.payload.media[mediaIdx]
            tr == Append(trace, MediaResolved(mediaIdx, outcome))
        IN  IF outcome = "ok"
            THEN /\ pc' = "media_body"
                 /\ UNCHANGED <<mediaIdx, mediaHtml, trace, responses, threw>>
            ELSE IF outcome = "throw" /\ ~CaughtByTry(outcome)
            THEN Catch /\ trace' = tr /\ UNCHANGED <<mediaIdx, mediaHtml>>
            ELSE LET frags == FetchFailureFragments(mediaIdx, item, outcome)
                     html == IF frags = <<>> THEN mediaHtml
                             ELSE AddFragment(mediaHtml, frags[1])
                 IN  MediaLoop(mediaIdx + 1, html, tr)

\* response.arrayBuffer() settles (lines 137-145, 147-150)
MediaBodyResolved ==
    /\ pc = "media_body"
    /\ UNCHANGED <<normVars, request, env, fromPhone, fromPhoneForReply,
                   toPhone, text, route>>
    /\ \E outcome \in {"ok", "throw"} :
        LET item == request.payload.media[mediaIdx]
            tr == Append(trace,
                    MediaResolved(mediaIdx,
                                  IF outcome = "ok" THEN "ok" ELSE "body_throw"))
            html == AddFragment(mediaHtml,
                                IF outcome = "ok"
                                THEN ImageFragment(mediaIdx, item)
                                ELSE FailedFragment(mediaIdx, item))
        IN  IF outcome = "throw" /\ ~CaughtByTry(outcome)
            THEN Catch /\ trace' = tr /\ UNCHANGED <<mediaIdx, mediaHtml>>
            ELSE MediaLoop(mediaIdx + 1, html, tr)

\* how the POST to an API can settle: a success response, an error response
\* whose body is read and logged, an error response whose body cannot be
\* read (await response.text() rejects), or a rejected fetch
DeliveryOutcomes == {"ok", "http_error", "http_error_unread", "throw"}

\* the outcomes of an API call that lead to the catch block: a rejection;
\* a response that is not ok is only logged (lines 101-103, 124-126)
DeliveryFailsMutant(outcome) == outcome # "ok"
DeliveryFails(outcome) == outcome \in {"throw", "http_error_unread"}

\* the POST to the Telnyx messages endpoint settles (lines 124-126, 240)
ReplyResolved ==
    /\ pc = "reply"
    /\ UNCHANGED <<normVars, request, env, fromPhone, fromPhoneForReply,
                   toPhone, text, route, mediaIdx, mediaHtml>>
    /\ \E outcome \in DeliveryOutcomes :
        /\ trace' = Append(trace, [kind |-> "reply_resolved", outcome |-> outcome])
        /\ IF DeliveryFails(outcome) THEN Catch ELSE Respond(200)

\* the POST to the Mailgun messages endpoint settles (lines 101-103, 240)
EmailResolved ==
    /\ pc = "email"
    /\ UNCHANGED <<normVars, request, env, fromPhone, fromPhoneForReply,
                   toPhone, text, route, mediaIdx, mediaHtml>>
    /\ \E outcome \in DeliveryOutcomes :
        /\ trace' = Append(trace, [kind |-> "email_resolved", outcome |-> outcome])
        /\ IF DeliveryFails(outcome) THEN Catch ELSE Respond(200)

Next ==
    \/ Receive
    \/ ParseBody
    \/ KvResolved
    \/ MediaFetchResolved
    \/ MediaBodyResolved
    \/ ReplyResolved
    \/ EmailResolved

Spec == Init /\ [][Next]_vars

(***************************************************************************)
(* Vocabulary of the properties, stated from the inputs and the trace.     *)
(***************************************************************************)
IsDigit(c) == c \in DigitChars
DigitsOf(s) == SelectSeq(s, IsDigit)
FirstIsPlus(s) == Len(s) > 0 /\ s[1] = "+"

\* s holds a "+" that only whitespace precedes
PlusAfterWhitespaceOnly(s) ==
    \E i \in 1..Len(s) :
        s[i] = "+" /\ \A j \in 1..(i - 1) : s[j] \in WhitespaceChars

DigitCountInRange(s) ==
    Len(DigitsOf(s)) >= E164_MIN_DIGITS /\ Len(DigitsOf(s)) <= E164_MAX_DIGITS

\* "+" followed by the digits of v
Canonical(v) == Str(<<"+">> \o DigitsOf(v.s))

\* v is a string that has a canonical form
ValidNumber(v) ==
    v.t = "string" /\ PlusAfterWhitespaceOnly(v.s) /\ DigitCountInRange(v.s)

Events(kind) == { i \in DOMAIN trace : trace[i].kind = kind }
Deliveries == Events("reply") \cup Events("email")
Finished == pc = "done"

IsPost == request.method = "POST"
IsEvent == IsPost /\ request.body = "event"
InboundReceived ==
    /\ IsEvent
    /\ request.hasPayload
    /\ request.event_type = "message.received"
    /\ request.payload.direction = "inbound"
DestinationValid == ValidNumber(ToField(request.payload.to))
ExpectedDestination == Canonical(ToField(request.payload.to))
ExpectedSender == Canonical(request.payload.from)

\* the key-value read returned (it did not reject): route holds its result
RouteRead ==
    \E i \in Events("kv_resolved") : trace[i].outcome # "throw"

\* an exception was raised while the request was processed
ExceptionRaised ==
    \/ request.body \in {"invalid_json", "no_data"}
    \/ (request.event_type = "message.received" /\ ~request.hasPayload)
    \/ \E i \in DOMAIN trace :
        /\ trace[i].kind \in {"kv_resolved", "reply_resolved", "email_resolved"}
        /\ trace[i].outcome \in {"throw", "http_error_unread"}

(***************************************************************************)
(* Properties of normalizePhoneNumber (checked under SpecNorm).            *)
(***************************************************************************)
Normalized == nOutcome # Pending

\* C7, as stated: every string whose first character is not "+" normalizes
\* to null, leading whitespace before a "+" included.
C7_FirstCharNotPlusIsNull ==
    (Normalized /\ nInput.t = "string" /\ ~FirstIsPlus(nInput.s))
        => nOutcome = Return(Null)

\* C7, amended: every string whose first character after its leading
\* whitespace is not "+" (no "+" at all, or something other than whitespace
\* before it) normalizes to null.
C7_FirstNonBlankNotPlusIsNull ==
    (Normalized /\ nInput.t = "string" /\ ~PlusAfterWhitespaceOnly(nInput.s))
        => nOutcome = Return(Null)

\* a string with 8 to 15 digits and a "+" behind a non-blank character was
\* rejected
C7_Witness ==
    /\ Normalized
    /\ nInput.t = "string"
    /\ ~PlusAfterWhitespaceOnly(nInput.s)
    /\ \E i \in 1..Len(nInput.s) : nInput.s[i] = "+"
    /\ DigitCountInRange(nInput.s)
    /\ nOutcome = Return(Null)

\* C8: a string starting with "+" normalizes to "+" followed by its digits
\* in order when it has 8 to 15 digits and to null otherwise; no input,
\* string or not, makes normalizePhoneNumber throw.
C8_PlusStringsNormalize ==
    Normalized =>
        /\ ~nOutcome.threw
        /\ (nInput.t = "string" /\ FirstIsPlus(nInput.s)) =>
              IF DigitCountInRange(nInput.s)
              THEN nOutcome.value = Canonical(nInput)
              ELSE nOutcome.value = Null

\* a number with interspersed punctuation was brought to canonical form
C8_Witness ==
    /\ Normalized
    /\ nInput.t = "string"
    /\ FirstIsPlus(nInput.s)
    /\ nOutcome.value.t = "string"
    /\ Len(nOutcome.value.s) = E164_MAX_DIGITS + 1
    /\ Len(nInput.s) > Len(nOutcome.value.s)

(***************************************************************************)
(* Properties of the handler (checked under Spec).                         *)
(***************************************************************************)
\* C1: an invocation ends with exactly one response; its status is 405 iff
\* the method is not POST, 500 iff the method is POST and an exception was
\* raised, 200 otherwise, also when the reply or email API answered with a
\* status that is not a success.
C1_ResponseStatus ==
    /\ Len(responses) = (IF Finished THEN 1 ELSE 0)
    /\ ~Finished => ENABLED Next
    /\ Finished =>
        /\ responses[1] = 405 <=> ~IsPost
        /\ responses[1] = 500 <=> (IsPost /\ ExceptionRaised)
        /\ responses[1] = 200 <=> (IsPost /\ ~ExceptionRaised)
        /\ (\E i \in DOMAIN trace :
                /\ trace[i].kind \in {"reply_resolved", "email_resolved"}
                /\ trace[i].outcome = "http_error")
             => responses[1] = 200

\* the email API answered with an error status and the handler answered 200
C1_Witness ==
    /\ Finished
    /\ responses = <<200>>
    /\ \E i \in Events("email_resolved") : trace[i].outcome = "http_error"

\* C2: a POST carrying an event whose type is not message.received, or
\* whose payload has a direction other than inbound, is answered 200 and
\* causes no outbound call and no key-value read.
C2_FilteredEventsIgnored ==
    (IsEvent /\ (\/ request.event_type # "message.received"
                 \/ (request.hasPayload
                     /\ request.payload.direction # "inbound")))
        => /\ trace = <<>>
           /\ Finished => responses = <<200>>

\* a message.received event for a routable destination, but outbound
C2_Witness ==
    /\ Finished
    /\ IsEvent
    /\ request.hasPayload
    /\ request.event_type = "message.received"
    /\ request.payload.direction = "outbound"
    /\ DestinationValid
    /\ responses = <<200>>

\* the case of C3: an auto_reply route with a reply text, a valid sender
C3_Case ==
    /\ InboundReceived
    /\ DestinationValid
    /\ RouteRead
    /\ route.t = "object"
    /\ route.mode = Txt("auto_reply")
    /\ TruthyTxt(route.reply_text)
    /\ ValidNumber(request.payload.from)

C3_OneReply ==
    /\ Cardinality(Events("reply")) = 1
    /\ \A i \in Events("reply") :
        trace[i] = ReplyCall(ExpectedDestination, ExpectedSender,
                             route.reply_text)
    /\ Events("email") = {}

\* C3, as stated: in that case exactly one reply call is made, from the
\* canonical destination to the canonical sender with the route's text, and
\* no email call.
C3_ReplySent == (Finished /\ C3_Case) => C3_OneReply

\* C3, amended: that holds when env.TELNYX_API_KEY is set; when it is not,
\* no reply call and no email call is made and the response is 200.
C3_ReplySentWithKey ==
    (Finished /\ C3_Case) =>
        IF env.TELNYX_API_KEY
        THEN C3_OneReply
        ELSE Deliveries = {} /\ responses = <<200>>

\* a reply was sent for a destination given with punctuation
C3_Witness ==
    /\ Finished
    /\ C3_Case
    /\ env.TELNYX_API_KEY
    /\ Cardinality(Events("reply")) = 1
    /\ request.payload.to.shape = "object"
    /\ ExpectedDestination # request.payload.to.value

\* the case of C4: a forward_email route with a recipient
C4_Case ==
    /\ InboundReceived
    /\ DestinationValid
    /\ RouteRead
    /\ route.t = "object"
    /\ route.mode = Txt("forward_email")
    /\ TruthyTxt(route.email)

C5_Case ==
    /\ InboundReceived
    /\ \/ ~DestinationValid
       \/ /\ RouteRead
          /\ \/ route.t # "object"
             \/ /\ route.mode = Txt("auto_reply")
                /\ (~TruthyTxt(route.reply_text)
                    \/ ~ValidNumber(request.payload.from))
             \/ /\ route.mode = Txt("forward_email")
                /\ ~TruthyTxt(route.email)
             \/ route.mode \notin {Txt("auto_reply"), Txt("forward_email")}

\* C5: an unprocessable inbound message is answered 200 with no reply call,
\* no email call and no media fetch.
C5_UnprocessableIgnored ==
    C5_Case =>
        /\ Deliveries = {}
        /\ Events("media_fetch") = {}
        /\ Finished => responses = <<200>>

\* an auto_reply route with a text, a usable key, but an invalid sender
C5_Witness ==
    /\ Finished
    /\ C5_Case
    /\ RouteRead
    /\ route.mode = Txt("auto_reply")
    /\ TruthyTxt(route.reply_text)
    /\ env.TELNYX_API_KEY
    /\ request.payload.from = LocalNumber
    /\ responses = <<200>>

\* C6: for every image attachment whose fetch is rejected or returns an
\* error status the markup holds a "Failed to load <url>" fragment for it
\* and no data-URI fragment; processMedia raises nothing and goes on to the
\* later attachments.
C6_FailedFetchLeavesPlaceholder ==
    /\ \A i \in Events("media_resolved") :
        trace[i].outcome \in {"throw", "http_error"} =>
            /\ \E f \in DOMAIN mediaHtml :
                /\ mediaHtml[f].kind = "failed"
                /\ mediaHtml[f].idx = trace[i].idx
                /\ mediaHtml[f].url = request.payload.media[trace[i].idx].url.s
            /\ \A f \in DOMAIN mediaHtml :
                mediaHtml[f].idx = trace[i].idx => mediaHtml[f].kind # "img"
    /\ (Finished /\ C4_Case) =>
        \A j \in DOMAIN request.payload.media :
            Fetchable(request.payload.media[j]) =>
                \E i \in Events("media_resolved") : trace[i].idx = j

\* C9: the attachments are fetched one at a time in the order of the media
\* list, each fetch settling before the next is issued; the fragments keep
\* the order of their attachments; the email call comes after the last
\* fetch has settled.
C9_SequentialMedia ==
    LET media == request.payload.media
        fetches == Events("media_fetch")
        settled == Events("media_resolved")
    IN  /\ \A p \in fetches :
            /\ Fetchable(media[trace[p].idx])
            /\ \A j \in 1..(trace[p].idx - 1) :
                Fetchable(media[j]) =>
                    \E q \in settled : q < p /\ trace[q].idx = j
        /\ \A p, q \in fetches : p < q => trace[p].idx < trace[q].idx
        /\ \A f, g \in DOMAIN mediaHtml :
            f < g => mediaHtml[f].idx < mediaHtml[g].idx
        /\ \A p \in Events("email") :
            /\ \A j \in DOMAIN media :
                Fetchable(media[j]) =>
                    \E q \in settled : q < p /\ trace[q].idx = j
            /\ \A q \in fetches \cup settled : q < p
            /\ \A f, g \in DOMAIN trace[p].mediaHtml :
                f < g => trace[p].mediaHtml[f].idx < trace[p].mediaHtml[g].idx

\* two attachments were fetched and both fragments went into the email
C9_Witness ==
    /\ Finished
    /\ Cardinality(Events("media_fetch")) = 2
    /\ \E p \in Events("email") : Len(trace[p].mediaHtml) = 2

\* C10: an invocation makes at most one delivery call, reply or email, and
\* only after its single key-value read, on "route:" followed by the
\* canonical destination, returned a route whose mode is that of the call.
C10_OneDeliveryAfterRoute ==
    /\ Cardinality(Deliveries) <= 1
    /\ Cardinality(Events("kv_get")) <= 1
    /\ \A p \in Deliveries :
        /\ \E q \in Events("kv_get") :
            /\ q < p
            /\ trace[q].key
                 = <<"r", "o", "u", "t", "e", ":">> \o ExpectedDestination.s
        /\ \E q \in Events("kv_resolved") :
            q < p /\ trace[q].outcome = "json"
        /\ route.mode = (IF trace[p].kind = "reply" THEN Txt("auto_reply")
                         ELSE Txt("forward_email"))

\* an email went out after the route was read
C10_Witness ==
    /\ Finished
    /\ Events("email") # {}
    /\ Events("kv_resolved") # {}
    /\ request.payload.to.shape = "array"

====
